---- MODULE Spec2Model ----
(***************************************************************************)
(* The declaration submission / retrieval pipeline of the AI Guidebook     *)
(* System: the multer upload middleware and the POST and GET handlers of   *)
(* server/routes/declarations.js, the ai_declarations table of             *)
(* server/config/database.js, the error middleware of server/index.js and  *)
(* the listing view of client/src/pages/HomePage.tsx, and the form view of  *)
(* client/src/pages/DeclarationFormPage.tsx.                               *)
(*                                                                         *)
(* Strings are TLA+ strings.  The aiTools form field, a JSON text, is a    *)
(* sequence of JSON tokens.  A request body is a function from the names   *)
(* of the fields the request carries to their values, so that a missing    *)
(* field is a name outside its DOMAIN.                                     *)
(***************************************************************************)
EXTENDS Integers, Sequences, FiniteSets, TLC

VARIABLES
    nodeEnv,       \* process.env.NODE_ENV
    clock,         \* the store's CURRENT_TIMESTAMP, in seconds
    store,         \* the rows of ai_declarations, in storage (primary key) order
    files,         \* the file names in the uploads directory
    req,           \* the POST requests: position in the handler, locals, response
    getRes,        \* the response of the latest GET /api/declarations
    declarations,  \* HomePage's state: the rows it fetched last
    formData,      \* DeclarationFormPage's state: the fields of the form
    loading,       \* ... a submission is under way, the form is disabled
    error,         \* ... the error message shown
    submitData     \* the request axios.post sent last

formVars == <<formData, loading, error, submitData>>

serverVars == <<nodeEnv, clock, store, files, req, getRes, declarations>>

vars == <<nodeEnv, clock, store, files, req, getRes, declarations,
          formData, loading, error, submitData>>

-----------------------------------------------------------------------------
(* Bounds *)

MaxPosts == 2      \* POST requests in one behaviour
MaxClock == 1      \* seconds the store's clock advances

-----------------------------------------------------------------------------
(* Text helpers *)

Digits == "0123456789"

Digit(n) == SubSeq(Digits, n + 1, n + 1)

RECURSIVE ToStr(_)
\* String(n) for n >= 0, as a template literal renders a number
ToStr(n) == IF n < 10 THEN Digit(n) ELSE ToStr(n \div 10) \o Digit(n % 10)

Pad2(n) == Digit((n \div 10) % 10) \o Digit(n % 10)

UpperCase == "ABCDEFGHIJKLMNOPQRSTUVWXYZ"
LowerCase == "abcdefghijklmnopqrstuvwxyz"

LowerChar(c) ==
    IF \E i \in 1..26 : SubSeq(UpperCase, i, i) = c
    THEN LET i == CHOOSE j \in 1..26 : SubSeq(UpperCase, j, j) = c
         IN  SubSeq(LowerCase, i, i)
    ELSE c

RECURSIVE ToLowerCase(_)
ToLowerCase(s) ==
    IF Len(s) = 0 THEN ""
    ELSE LowerChar(SubSeq(s, 1, 1)) \o ToLowerCase(SubSeq(s, 2, Len(s)))

\* s has p as a substring
Contains(s, p) ==
    \E i \in 1..Len(s) : i + Len(p) - 1 <= Len(s) /\ SubSeq(s, i, i + Len(p) - 1) = p

RECURSIVE TrimStart(_)
TrimStart(s) ==
    IF Len(s) > 0 /\ SubSeq(s, 1, 1) = " " THEN TrimStart(SubSeq(s, 2, Len(s))) ELSE s

RECURSIVE TrimEnd(_)
TrimEnd(s) ==
    IF Len(s) > 0 /\ SubSeq(s, Len(s), Len(s)) = " "
    THEN TrimEnd(SubSeq(s, 1, Len(s) - 1))
    ELSE s

\* String.prototype.trim, the white space being the space character
Trim(s) == TrimEnd(TrimStart(s))

-----------------------------------------------------------------------------
(* JSON: the texts the aiTools field can hold, and JSON.parse on them *)

LB == [t |-> "["]
RB == [t |-> "]"]
LC == [t |-> "{"]
RC == [t |-> "}"]
Comma == [t |-> ","]
Junk == [t |-> "junk"]                 \* a character no JSON value starts with
StrTok(s) == [t |-> "str", v |-> s]    \* the string literal "s"
NumTok(s) == [t |-> "num", v |-> s]    \* the number literal s
NullTok == [t |-> "null"]

IsScalarTok(k) == k.t \in {"str", "num", "null"}

\* the elements between the brackets: value (, value)*
RECURSIVE IsElementList(_)
IsElementList(toks) ==
    /\ Len(toks) >= 1
    /\ IsScalarTok(toks[1])
    /\ \/ Len(toks) = 1
       \/ /\ Len(toks) >= 3
          /\ toks[2] = Comma
          /\ IsElementList(SubSeq(toks, 3, Len(toks)))

RECURSIVE Elements(_)
Elements(toks) ==
    IF Len(toks) <= 1 THEN toks
    ELSE <<toks[1]>> \o Elements(SubSeq(toks, 3, Len(toks)))

\* JSON.parse(text): [ok |-> FALSE] stands for the SyntaxError it throws.
\* Covers scalars, the empty object and arrays of scalars.
JsonParse(text) ==
    IF Len(text) = 1 /\ IsScalarTok(text[1])
        THEN [ok |-> TRUE, value |-> text[1]]
    ELSE IF text = <<LC, RC>>
        THEN [ok |-> TRUE, value |-> [t |-> "object"]]
    ELSE IF text = <<LB, RB>>
        THEN [ok |-> TRUE, value |-> [t |-> "array", v |-> <<>>]]
    ELSE IF /\ Len(text) >= 3
            /\ text[1] = LB
            /\ text[Len(text)] = RB
            /\ IsElementList(SubSeq(text, 2, Len(text) - 1))
        THEN [ok |-> TRUE,
              value |-> [t |-> "array", v |-> Elements(SubSeq(text, 2, Len(text) - 1))]]
    ELSE [ok |-> FALSE]

IsArray(value) == value.t = "array"

-----------------------------------------------------------------------------
(* The request: body fields and the optional file *)

FieldNames == {"userName", "assignmentTitle", "aiTools", "usagePurpose", "aiContent"}

EmptyBody == [f \in {} |-> ""]

Restrict(b, D) == [name \in D |-> b[name]]

\* !body[f] in JavaScript: the field is missing (undefined) or the empty string
Falsy(b, f) == IF f \in DOMAIN b THEN Len(b[f]) = 0 ELSE TRUE

NoFile == [present |-> FALSE]

File(ext, mimetype, size) ==
    [present |-> TRUE, ext |-> ext, mimetype |-> mimetype, size |-> size]

-----------------------------------------------------------------------------
(* multer: fileFilter, limits, diskStorage *)

AllowedTypes == {"jpeg", "jpg", "png", "gif", "webp"}

\* allowedTypes.test(s) for the unanchored /jpeg|jpg|png|gif|webp/
AllowedTypesTest(s) == \E p \in AllowedTypes : Contains(s, p)

FileFilter(f) == AllowedTypesTest(ToLowerCase(f.ext)) /\ AllowedTypesTest(f.mimetype)

FileSizeLimit == 5 * 1024 * 1024

\* 'screenshot-' + uniqueSuffix + path.extname(file.originalname); the unique
\* suffix of the r-th request is r
Filename(r, f) == "screenshot-" \o ToStr(r) \o f.ext

Null == "NULL"     \* SQL NULL / JavaScript null; no path equals it

ScreenshotPath(r, f) == IF f.present THEN "/uploads/" \o Filename(r, f) ELSE Null

\* mutant: the uploaded file is left where it is
UnlinkNothing(fs, r, f) == fs

\* if (req.file) fs.unlinkSync(req.file.path)
Unlink(fs, r, f) == IF f.present THEN fs \ {Filename(r, f)} ELSE fs

-----------------------------------------------------------------------------
(* Responses *)

NoResponse == [status |-> 0]

\* index.js error middleware: error is err.message in development, else undefined
ErrorMiddleware(env, message) ==
    IF env = "development"
    THEN [status |-> 500, success |-> FALSE, message |-> "Internal server error",
          error |-> message]
    ELSE [status |-> 500, success |-> FALSE, message |-> "Internal server error"]

ValidationFailure(message) == [status |-> 400, success |-> FALSE, message |-> message]

Created(k) ==
    [status |-> 201, success |-> TRUE,
     message |-> "Successfully created " \o ToStr(k) \o " declaration(s)"]

\* mutant: the catch block answers as a success does
PostFailureAsCreated(message) ==
    [status |-> 201, success |-> TRUE, message |-> "Failed to create declaration",
     error |-> message]

\* the POST handler's catch block: error.message is sent whatever NODE_ENV is
PostFailure(message) ==
    [status |-> 500, success |-> FALSE, message |-> "Failed to create declaration",
     error |-> message]

\* the GET handler's catch block: error.message is sent whatever NODE_ENV is
GetFailure(message) ==
    [status |-> 500, success |-> FALSE, message |-> "Failed to fetch declarations",
     error |-> message]

GetSuccess(rows) == [status |-> 200, success |-> TRUE, count |-> Len(rows), data |-> rows]

-----------------------------------------------------------------------------
(* The store: table ai_declarations *)

\* the text a VARCHAR column holds for a JSON string or number parameter
SqlText(tool) == tool.v

\* ai_tool VARCHAR(255) NOT NULL refuses a null parameter
Insertable(tool) == tool.t # "null"

\* mutant: the insert overwrites the newest row (a REPLACE on a reused key)
DbReplace(rows, userName, assignmentTitle, tool, usagePurpose, aiContent, screenshotPath, now) ==
    LET row == [id |-> IF Len(rows) = 0 THEN 1 ELSE Len(rows),
                user_name |-> userName,
                assignment_title |-> assignmentTitle,
                ai_tool |-> tool.v,
                usage_purpose |-> usagePurpose,
                ai_content |-> aiContent,
                screenshot_path |-> screenshotPath,
                created_at |-> now]
    IN  IF Len(rows) = 0 THEN <<row>> ELSE [rows EXCEPT ![Len(rows)] = row]

\* INSERT INTO ai_declarations (...) VALUES (?, ?, ?, ?, ?, ?): id is the next
\* AUTO_INCREMENT value, created_at defaults to CURRENT_TIMESTAMP
DbInsert(rows, userName, assignmentTitle, tool, usagePurpose, aiContent, screenshotPath, now) ==
    Append(rows,
           [id |-> Len(rows) + 1,
            user_name |-> userName,
            assignment_title |-> assignmentTitle,
            ai_tool |-> SqlText(tool),
            usage_purpose |-> usagePurpose,
            ai_content |-> aiContent,
            screenshot_path |-> screenshotPath,
            created_at |-> now])

\* the position of a row with created_at = t in a list ordered newest first:
\* after the rows at least as recent (a stable sort of the table scan)
RECURSIVE InsertAfterTies(_, _)
InsertAfterTies(sorted, row) ==
    IF Len(sorted) = 0 THEN <<row>>
    ELSE IF sorted[1].created_at >= row.created_at
         THEN <<sorted[1]>> \o InsertAfterTies(Tail(sorted), row)
         ELSE <<row>> \o sorted

\* before the rows of the same second (idx_created_at read backwards: the index
\* holds (created_at, id), so ties come out by descending id)
RECURSIVE InsertBeforeTies(_, _)
InsertBeforeTies(sorted, row) ==
    IF Len(sorted) = 0 THEN <<row>>
    ELSE IF sorted[1].created_at > row.created_at
         THEN <<sorted[1]>> \o InsertBeforeTies(Tail(sorted), row)
         ELSE <<row>> \o sorted

RECURSIVE FileSort(_)
FileSort(rows) ==
    IF Len(rows) = 0 THEN <<>>
    ELSE InsertAfterTies(FileSort(SubSeq(rows, 1, Len(rows) - 1)), rows[Len(rows)])

RECURSIVE IndexScanBackward(_)
IndexScanBackward(rows) ==
    IF Len(rows) = 0 THEN <<>>
    ELSE InsertBeforeTies(IndexScanBackward(SubSeq(rows, 1, Len(rows) - 1)), rows[Len(rows)])

RECURSIVE Reverse(_)
Reverse(rows) == IF Len(rows) = 0 THEN <<>> ELSE Append(Reverse(Tail(rows)), rows[1])

\* mutant: ORDER BY created_at, the oldest first
OrderByCreatedAt(rows) == {Reverse(FileSort(rows)), Reverse(IndexScanBackward(rows))}

\* SELECT * FROM ai_declarations ORDER BY created_at DESC.  SQL leaves the
\* order of rows with equal created_at to the server's plan: a sort of the
\* table scan, or the index on created_at read backwards.
OrderByCreatedAtDesc(rows) == {FileSort(rows), IndexScanBackward(rows)}

-----------------------------------------------------------------------------
(* HomePage: the fetched rows and their grouping *)

\* JSON of a Date: toISOString(); the clock counts seconds from the epoch
ToISOString(t) == "1970-01-01T00:00:" \o Pad2(t) \o ".000Z"

\* a row as the client receives it: created_at is a string
Serialize(row) == [row EXCEPT !.created_at = ToISOString(row.created_at)]

\* `${user_name}-${assignment_title}-${created_at}`
GroupKey(d) == d.user_name \o "-" \o d.assignment_title \o "-" \o d.created_at

\* one step of the reduce: acc keeps its keys in insertion order
GroupStep(acc, d) ==
    IF \E i \in 1..Len(acc) : acc[i].key = GroupKey(d)
    THEN [i \in 1..Len(acc) |->
            IF acc[i].key = GroupKey(d)
            THEN [acc[i] EXCEPT !.rows = Append(acc[i].rows, d)]
            ELSE acc[i]]
    ELSE Append(acc, [key |-> GroupKey(d), rows |-> <<d>>])

RECURSIVE Reduce(_, _)
Reduce(acc, list) ==
    IF Len(list) = 0 THEN acc ELSE Reduce(GroupStep(acc, list[1]), Tail(list))

\* Object.values(groupedDeclarations): the groups, each a list of rows
GroupedDeclarations(list) ==
    LET acc == Reduce(<<>>, list) IN [i \in 1..Len(acc) |-> acc[i].rows]

\* the tool badges of a card
Badges(group) == [i \in 1..Len(group) |-> group[i].ai_tool]

-----------------------------------------------------------------------------
(* Inputs *)

RECURSIVE ArrayBody(_)
ArrayBody(elems) ==
    IF Len(elems) = 1 THEN elems
    ELSE <<elems[1], Comma>> \o ArrayBody(Tail(elems))

\* JSON.stringify of a list of scalars
ArrayText(elems) == IF Len(elems) = 0 THEN <<LB, RB>> ELSE <<LB>> \o ArrayBody(elems) \o <<RB>>

ChatGPT == StrTok("ChatGPT")
Claude == StrTok("Claude")
Grammarly == StrTok("Grammarly")

AiToolsTexts ==
    { <<>>,                              \* the empty string
      <<Junk>>,                          \* not JSON
      <<LC, RC>>,                        \* {}
      <<ChatGPT>>,                       \* a JSON string, not an array
      ArrayText(<<>>),
      ArrayText(<<ChatGPT>>),
      ArrayText(<<ChatGPT, Claude>>),
      ArrayText(<<ChatGPT, ChatGPT>>),
      ArrayText(<<ChatGPT, Claude, Grammarly>>),
      ArrayText(<<NumTok("1")>>),
      ArrayText(<<ChatGPT, NullTok>>) }

\* Spec: what the form sends, trimmed and non-empty, without a screenshot
UserNames == {"a", "a-b"}
AssignmentTitles == {"c", "b-c"}

Bodies ==
    [userName : UserNames, assignmentTitle : AssignmentTitles,
     aiTools : {ArrayText(<<ChatGPT>>), ArrayText(<<ChatGPT, Claude>>)},
     usagePurpose : {"p"}, aiContent : {"o"}]

Files == {NoFile}

\* SpecInput: any request a client of the API can send
InputFullBodies ==
    [userName : {"", " ", "a"}, assignmentTitle : {"", " ", "c"}, aiTools : AiToolsTexts,
     usagePurpose : {"", "p"}, aiContent : {"", "o"}]

\* the bodies with all five fields, and those lacking one of them
InputBodies ==
    {Restrict(b, FieldNames \ {f}) : b \in InputFullBodies, f \in FieldNames \cup {"none"}}

InputFiles ==
    { NoFile,
      File(".png", "image/png", 1024),
      File(".PNG", "image/png", FileSizeLimit),
      File(".png", "image/png", FileSizeLimit + 1),
      File(".txt", "text/plain", 1024),
      File(".png", "text/plain", 1024),
      File(".pngx", "application/x-png", 1024) }

\* SpecForm: what the user types, checks and attaches
FormValues ==
    [userName |-> {"", " ", " a "}, assignmentTitle |-> {"", "c"},
     customTool |-> {"", " ", " ChatGPT "}, usagePurpose |-> {"", "p"},
     aiContent |-> {"", "o "}]

FormTools == {"ChatGPT", "Claude"}

FormFiles ==
    { File(".png", "image/png", 1024),
      File(".txt", "text/plain", 1024),
      File(".png", "image/png", FileSizeLimit + 1) }

ServerMessages == {"Failed to create declaration"}

NodeEnvs == {"development", "production"}

DbError == "connect ECONNREFUSED"

-----------------------------------------------------------------------------
(* State *)

Pending == [st |-> "pending"]
Fulfilled(insertId) == [st |-> "fulfilled", insertId |-> insertId]
Rejected(message) == [st |-> "rejected", message |-> message]

\* useState<DeclarationFormData>({...})
InitialFormData ==
    [userName |-> "", assignmentTitle |-> "", aiTools |-> <<>>, customTool |-> "",
     usagePurpose |-> "", aiContent |-> "", screenshot |-> NoFile]

NoRequest == [body |-> EmptyBody, file |-> NoFile]

NewRequest ==
    [pc |-> "new", body |-> EmptyBody, file |-> NoFile, toolsArray |-> <<>>,
     insertPromises |-> <<>>, res |-> NoResponse]

Init ==
    /\ nodeEnv \in NodeEnvs
    /\ clock = 0
    /\ store = <<>>
    /\ files = {}
    /\ req = [r \in 1..MaxPosts |-> NewRequest]
    /\ getRes = NoResponse
    /\ declarations = <<>>
    /\ formData = InitialFormData
    /\ loading = FALSE
    /\ error = ""
    /\ submitData = NoRequest

-----------------------------------------------------------------------------
(* POST /api/declarations: upload.single('screenshot') *)

Arrives(r) == req[r].pc = "new" /\ \A q \in 1..(r - 1) : req[q].pc # "new"

\* fileFilter refuses the file: multer passes the error on, nothing is stored
UploadRejectType(r, B, F) ==
    /\ Arrives(r)
    /\ \E b \in B, f \in F :
         /\ f.present
         /\ ~FileFilter(f)
         /\ req' = [req EXCEPT ![r] = [@ EXCEPT !.pc = "done", !.body = b, !.file = f,
                      !.res = ErrorMiddleware(nodeEnv,
                                "Only image files are allowed (jpeg, jpg, png, gif, webp)")]]
    /\ UNCHANGED <<nodeEnv, clock, store, files, getRes, declarations, formVars>>

\* the file passes the limit: multer removes what it wrote and passes the error on
UploadRejectSize(r, B, F) ==
    /\ Arrives(r)
    /\ \E b \in B, f \in F :
         /\ f.present
         /\ FileFilter(f)
         /\ f.size > FileSizeLimit
         /\ req' = [req EXCEPT ![r] = [@ EXCEPT !.pc = "done", !.body = b, !.file = f,
                      !.res = ErrorMiddleware(nodeEnv, "File too large")]]
    /\ UNCHANGED <<nodeEnv, clock, store, files, getRes, declarations, formVars>>

\* no file, or a file stored in the uploads directory: the handler is next
UploadAccept(r, B, F) ==
    /\ Arrives(r)
    /\ \E b \in B, f \in F :
         /\ f.present => FileFilter(f) /\ f.size <= FileSizeLimit
         /\ files' = IF f.present THEN files \cup {Filename(r, f)} ELSE files
         /\ req' = [req EXCEPT ![r] = [@ EXCEPT !.pc = "handler", !.body = b, !.file = f]]
    /\ UNCHANGED <<nodeEnv, clock, store, getRes, declarations, formVars>>

-----------------------------------------------------------------------------
(* POST /api/declarations: the handler *)

\* !userName || !assignmentTitle || !aiTools || !usagePurpose || !aiContent
MissingRequired(b) == \E f \in FieldNames : Falsy(b, f)

\* JSON.parse(aiTools), then the check for a non-empty array; ok is FALSE where
\* the try block throws
ParseTools(text) ==
    LET p == JsonParse(text)
    IN  IF p.ok /\ IsArray(p.value) /\ Len(p.value.v) # 0
        THEN [ok |-> TRUE, toolsArray |-> p.value.v]
        ELSE [ok |-> FALSE]

HandleMissing(r) ==
    /\ req[r].pc = "handler"
    /\ MissingRequired(req[r].body)
    /\ files' = Unlink(files, r, req[r].file)
    /\ req' = [req EXCEPT ![r] = [@ EXCEPT !.pc = "done",
                 !.res = ValidationFailure("All fields except screenshot are required")]]
    /\ UNCHANGED <<nodeEnv, clock, store, getRes, declarations, formVars>>

HandleInvalidTools(r) ==
    /\ req[r].pc = "handler"
    /\ ~MissingRequired(req[r].body)
    /\ ~ParseTools(req[r].body.aiTools).ok
    /\ files' = Unlink(files, r, req[r].file)
    /\ req' = [req EXCEPT ![r] = [@ EXCEPT !.pc = "done",
                 !.res = ValidationFailure("Invalid AI tools format")]]
    /\ UNCHANGED <<nodeEnv, clock, store, getRes, declarations, formVars>>

\* mutant: an insert for the first tool alone
IssueInsertsFirstOnly(toolsArray) == <<Pending>>

\* toolsArray.map(tool => pool.query(...)): one insert issued per element
IssueInserts(toolsArray) == [i \in 1..Len(toolsArray) |-> Pending]

HandleInsert(r) ==
    /\ req[r].pc = "handler"
    /\ ~MissingRequired(req[r].body)
    /\ ParseTools(req[r].body.aiTools).ok
    /\ LET toolsArray == ParseTools(req[r].body.aiTools).toolsArray
       IN  req' = [req EXCEPT ![r] = [@ EXCEPT !.pc = "await",
                     !.toolsArray = toolsArray,
                     !.insertPromises = IssueInserts(toolsArray)]]
    /\ UNCHANGED <<nodeEnv, clock, store, files, getRes, declarations, formVars>>

\* the store runs the i-th insert of request r
InsertCommit(r) ==
    /\ req[r].pc \in {"await", "done"}
    /\ \E i \in 1..Len(req[r].insertPromises) :
         /\ req[r].insertPromises[i] = Pending
         /\ Insertable(req[r].toolsArray[i])
         /\ store' = DbInsert(store, req[r].body.userName, req[r].body.assignmentTitle,
                              req[r].toolsArray[i], req[r].body.usagePurpose,
                              req[r].body.aiContent, ScreenshotPath(r, req[r].file), clock)
         /\ req' = [req EXCEPT ![r].insertPromises[i] = Fulfilled(store'[Len(store')].id)]
    /\ UNCHANGED <<nodeEnv, clock, files, getRes, declarations, formVars>>

\* the i-th insert fails: a null for a NOT NULL column, or the connection
InsertFail(r) ==
    /\ req[r].pc \in {"await", "done"}
    /\ \E i \in 1..Len(req[r].insertPromises) :
         /\ req[r].insertPromises[i] = Pending
         /\ req' = [req EXCEPT ![r].insertPromises[i] =
                      Rejected(IF Insertable(req[r].toolsArray[i]) THEN DbError
                               ELSE "Column 'ai_tool' cannot be null")]
    /\ UNCHANGED <<nodeEnv, clock, store, files, getRes, declarations, formVars>>

\* await Promise.all(insertPromises) resolves: every insert is fulfilled
RespondCreated(r) ==
    /\ req[r].pc = "await"
    /\ \A i \in 1..Len(req[r].insertPromises) : req[r].insertPromises[i].st = "fulfilled"
    /\ req' = [req EXCEPT ![r] = [@ EXCEPT !.pc = "done",
                 !.res = Created(Len(req[r].toolsArray))]]
    /\ UNCHANGED <<nodeEnv, clock, store, files, getRes, declarations, formVars>>

\* await Promise.all(insertPromises) rejects as soon as one insert is rejected:
\* the catch block
CatchError(r) ==
    /\ req[r].pc = "await"
    /\ \E i \in 1..Len(req[r].insertPromises) :
         /\ req[r].insertPromises[i].st = "rejected"
         /\ req' = [req EXCEPT ![r] = [@ EXCEPT !.pc = "done",
                      !.res = PostFailure(req[r].insertPromises[i].message)]]
    /\ files' = Unlink(files, r, req[r].file)
    /\ UNCHANGED <<nodeEnv, clock, store, getRes, declarations, formVars>>

-----------------------------------------------------------------------------
(* GET /api/declarations and HomePage.fetchDeclarations *)

GetOk ==
    /\ \E rows \in OrderByCreatedAtDesc(store) :
         /\ getRes' = GetSuccess(rows)
         /\ declarations' = [i \in 1..Len(rows) |-> Serialize(rows[i])]
    /\ UNCHANGED <<nodeEnv, clock, store, files, req, formVars>>

\* the query fails: the catch block; the client keeps the rows it had
GetFail ==
    /\ getRes' = GetFailure(DbError)
    /\ UNCHANGED <<nodeEnv, clock, store, files, req, declarations, formVars>>

\* the store's clock passes to the next second
Tick ==
    /\ clock < MaxClock
    /\ clock' = clock + 1
    /\ UNCHANGED <<nodeEnv, store, files, req, getRes, declarations, formVars>>

-----------------------------------------------------------------------------
(* DeclarationFormPage *)

\* a text input changes while the form is enabled
HandleInputChange ==
    /\ ~loading
    /\ \E name \in DOMAIN FormValues : \E value \in FormValues[name] :
         formData' = [formData EXCEPT ![name] = value]
    /\ UNCHANGED <<serverVars, loading, error, submitData>>

Includes(list, x) == \E i \in 1..Len(list) : list[i] = x

\* list.filter(t => t !== x)
RECURSIVE Without(_, _)
Without(list, x) ==
    IF Len(list) = 0 THEN <<>>
    ELSE IF list[1] = x THEN Without(Tail(list), x)
    ELSE <<list[1]>> \o Without(Tail(list), x)

\* a checkbox is clicked: the tool leaves the list, or joins it at the end
HandleToolChange ==
    /\ ~loading
    /\ \E tool \in FormTools :
         formData' = [formData EXCEPT !.aiTools =
                        IF Includes(@, tool) THEN Without(@, tool) ELSE Append(@, tool)]
    /\ UNCHANGED <<serverVars, loading, error, submitData>>

\* file.type.startsWith('image/')
StartsWithImage(type) == Len(type) >= 6 /\ SubSeq(type, 1, 6) = "image/"

HandleFileChange ==
    /\ ~loading
    /\ \E file \in FormFiles :
         IF ~StartsWithImage(file.mimetype)
         THEN error' = "Please upload an image file" /\ UNCHANGED formData
         ELSE IF file.size > 5 * 1024 * 1024
         THEN error' = "File size must be less than 5MB" /\ UNCHANGED formData
         ELSE formData' = [formData EXCEPT !.screenshot = file] /\ error' = ""
    /\ UNCHANGED <<serverVars, loading, submitData>>

RemoveScreenshot ==
    /\ ~loading
    /\ formData.screenshot.present
    /\ formData' = [formData EXCEPT !.screenshot = NoFile]
    /\ UNCHANGED <<serverVars, loading, error, submitData>>

\* validateForm: the message of the first check that fails, "" when none does
ValidateForm(fd) ==
    IF Len(Trim(fd.userName)) = 0 THEN "Please enter your name"
    ELSE IF Len(Trim(fd.assignmentTitle)) = 0 THEN "Please enter the assignment title"
    ELSE IF Len(fd.aiTools) = 0 /\ Len(Trim(fd.customTool)) = 0
    THEN "Please select at least one AI tool or enter a custom tool"
    ELSE IF Len(Trim(fd.usagePurpose)) = 0 THEN "Please describe the purpose of AI usage"
    ELSE IF Len(Trim(fd.aiContent)) = 0 THEN "Please describe the AI-generated content"
    ELSE ""

\* mutant: the custom tool is left out
AllToolsCheckedOnly(fd) == fd.aiTools

\* allTools: the checked tools, then the custom tool if it is not blank
AllTools(fd) ==
    IF Len(Trim(fd.customTool)) > 0
    THEN Append(fd.aiTools, Trim(fd.customTool))
    ELSE fd.aiTools

\* JSON.stringify(allTools)
Stringify(list) == ArrayText([i \in 1..Len(list) |-> StrTok(list[i])])

\* the multipart body handleSubmit builds
SubmitBody(fd) ==
    [userName |-> Trim(fd.userName),
     assignmentTitle |-> Trim(fd.assignmentTitle),
     usagePurpose |-> Trim(fd.usagePurpose),
     aiContent |-> Trim(fd.aiContent),
     aiTools |-> Stringify(AllTools(fd))]

\* the form is submitted: an error message, or the request is sent
HandleSubmit ==
    /\ ~loading
    /\ IF ValidateForm(formData) # ""
       THEN /\ error' = ValidateForm(formData)
            /\ UNCHANGED <<loading, submitData>>
       ELSE /\ error' = ""
            /\ loading' = TRUE
            /\ submitData' = [body |-> SubmitBody(formData), file |-> formData.screenshot]
    /\ UNCHANGED <<serverVars, formData>>

\* the response has success true: navigate('/'), the form view is left and
\* starts anew on its next visit
SubmitSucceeded ==
    /\ loading
    /\ formData' = InitialFormData
    /\ loading' = FALSE
    /\ error' = ""
    /\ UNCHANGED <<serverVars, submitData>>

\* the request fails: the server's message, or the default one, is shown
SubmitFailed ==
    /\ loading
    /\ error' \in ServerMessages \cup {"Failed to submit declaration. Please try again."}
    /\ loading' = FALSE
    /\ UNCHANGED <<serverVars, formData, submitData>>

-----------------------------------------------------------------------------

\* concurrent submissions of the form, and the listing view
Next ==
    \/ \E r \in 1..MaxPosts : UploadAccept(r, Bodies, Files)
    \/ \E r \in 1..MaxPosts : HandleInsert(r)
    \/ \E r \in 1..MaxPosts : InsertCommit(r)
    \/ \E r \in 1..MaxPosts : InsertFail(r)
    \/ \E r \in 1..MaxPosts : RespondCreated(r)
    \/ \E r \in 1..MaxPosts : CatchError(r)
    \/ GetOk
    \/ GetFail
    \/ Tick

Spec == Init /\ [][Next]_vars

\* one submission with any body and any file, and the listing view
NextInput ==
    \/ UploadRejectType(1, InputBodies, InputFiles)
    \/ UploadRejectSize(1, InputBodies, InputFiles)
    \/ UploadAccept(1, InputBodies, InputFiles)
    \/ HandleMissing(1)
    \/ HandleInvalidTools(1)
    \/ HandleInsert(1)
    \/ InsertCommit(1)
    \/ InsertFail(1)
    \/ RespondCreated(1)
    \/ CatchError(1)
    \/ GetOk
    \/ GetFail
    \/ Tick

SpecInput == Init /\ [][NextInput]_vars

\* the form view, from its first rendering on
NextForm ==
    \/ HandleInputChange
    \/ HandleToolChange
    \/ HandleFileChange
    \/ RemoveScreenshot
    \/ HandleSubmit
    \/ SubmitSucceeded
    \/ SubmitFailed

SpecForm == Init /\ [][NextForm]_vars

-----------------------------------------------------------------------------
(* Vocabulary of the properties *)

Posts == 1..MaxPosts

TextFields == {"userName", "assignmentTitle", "usagePurpose", "aiContent"}

Responded(r) == req[r].pc = "done"

\* the upload middleware let the request through to the handler
PassedUpload(q) == q.file.present => FileFilter(q.file) /\ q.file.size <= FileSizeLimit

\* aiTools is the JSON text of a non-empty array
IsNonEmptyArrayText(text) ==
    JsonParse(text).ok /\ IsArray(JsonParse(text).value) /\ Len(JsonParse(text).value.v) > 0

\* ... of strings
IsNonEmptyStringListText(text) ==
    /\ IsNonEmptyArrayText(text)
    /\ \A i \in 1..Len(JsonParse(text).value.v) : JsonParse(text).value.v[i].t = "str"

\* the request passes the upload middleware and the handler's validation
PassesValidation(q) ==
    /\ PassedUpload(q)
    /\ \A f \in FieldNames : ~Falsy(q.body, f)
    /\ IsNonEmptyArrayText(q.body.aiTools)

FulfilledInserts(q) == {i \in 1..Len(q.insertPromises) : q.insertPromises[i].st = "fulfilled"}

NumFulfilled(r) == Cardinality(FulfilledInserts(req[r]))

\* the inserts fulfilled for the requests 1..n
RECURSIVE TotalFulfilled(_)
TotalFulfilled(n) == IF n = 0 THEN 0 ELSE NumFulfilled(n) + TotalFulfilled(n - 1)

\* the rows request r created, by the insertId each insert returned
RowOf(q, i) == store[q.insertPromises[i].insertId]

-----------------------------------------------------------------------------
(* C1 *)

\* C1: a POST that passes validation with a tool list of length k and whose
\* inserts all succeed has, once answered, added exactly k rows, one per
\* element of the list in the list's order of elements (duplicates kept), all
\* with the request's user_name, assignment_title, usage_purpose, ai_content
\* and screenshot_path, and is answered 201 "Successfully created k declaration(s)".
C1_CreatesOneRowPerTool ==
    /\ Len(store) = TotalFulfilled(MaxPosts)
    /\ \A r \in Posts :
         LET q == req[r]
             list == JsonParse(q.body.aiTools).value.v
             k == Len(list)
         IN  ( /\ Responded(r)
               /\ PassesValidation(q)
               /\ \A i \in 1..Len(q.insertPromises) : q.insertPromises[i].st = "fulfilled" )
             => /\ q.res = [status |-> 201, success |-> TRUE,
                            message |-> "Successfully created " \o ToStr(k) \o " declaration(s)"]
                /\ Len(q.insertPromises) = k
                /\ \A i, j \in 1..k : i # j => RowOf(q, i).id # RowOf(q, j).id
                /\ \A i \in 1..k :
                     /\ RowOf(q, i).id = q.insertPromises[i].insertId
                     /\ RowOf(q, i).ai_tool = list[i].v
                     /\ RowOf(q, i).user_name = q.body.userName
                     /\ RowOf(q, i).assignment_title = q.body.assignmentTitle
                     /\ RowOf(q, i).usage_purpose = q.body.usagePurpose
                     /\ RowOf(q, i).ai_content = q.body.aiContent
                     /\ RowOf(q, i).screenshot_path =
                          (IF q.file.present THEN "/uploads/" \o Filename(r, q.file) ELSE Null)

\* a submission naming the same tool twice, with a screenshot, answered 201
C1_Witness ==
    \E r \in Posts :
        /\ req[r].res.status = 201
        /\ req[r].file.present
        /\ Len(req[r].toolsArray) = 2
        /\ req[r].toolsArray[1] = req[r].toolsArray[2]
        /\ Len(store) = 2

-----------------------------------------------------------------------------
(* C2 *)

\* C2: a POST in which userName, assignmentTitle, usagePurpose or aiContent is
\* missing or empty is answered 400 and adds no row, whatever the other fields
\* and whether or not a file is attached.
C2_MissingFieldIs400 ==
    \A r \in Posts :
        ( /\ Responded(r)
          /\ \E f \in TextFields : Falsy(req[r].body, f) )
        => /\ req[r].res.status = 400
           /\ Len(req[r].insertPromises) = 0

-----------------------------------------------------------------------------
(* C3 *)

\* C3: a POST that reaches the handler (no file, or a file the upload accepted)
\* and whose aiTools is not the JSON text of a non-empty list of strings (not
\* JSON, not an array, an empty array, an array with a non-string element) is
\* answered 400 and inserts no row.
C3_InvalidToolsIs400 ==
    \A r \in Posts :
        ( /\ Responded(r)
          /\ PassedUpload(req[r])
          /\ IF "aiTools" \in DOMAIN req[r].body
             THEN ~IsNonEmptyStringListText(req[r].body.aiTools)
             ELSE TRUE )
        => /\ req[r].res.status = 400
           /\ Len(req[r].insertPromises) = 0

-----------------------------------------------------------------------------
(* C4 *)

\* C4: a POST whose file has a disallowed type or is larger than 5 MiB is
\* answered 400, stores no file and creates no row.
C4_RefusedFileIs400 ==
    \A r \in Posts :
        ( /\ Responded(r)
          /\ req[r].file.present
          /\ ~FileFilter(req[r].file) \/ req[r].file.size > 5 * 1024 * 1024 )
        => /\ req[r].res.status = 400
           /\ Filename(r, req[r].file) \notin files
           /\ Len(req[r].insertPromises) = 0

-----------------------------------------------------------------------------
(* C5 *)

\* C5: no file in the uploads directory belongs to a submission that validation
\* rejected with 400: the handler deleted the uploaded file before it answered.
C5_NoOrphanAfter400 ==
    \A r \in Posts :
        (req[r].res.status = 400 /\ req[r].file.present)
        => Filename(r, req[r].file) \notin files

\* a submission with a stored screenshot rejected for its tool list, and one
\* rejected for a missing field
C5_Witness ==
    \E r \in Posts :
        /\ req[r].res.status = 400
        /\ req[r].file.present
        /\ req[r].res.message = "Invalid AI tools format"
        /\ files = {}

-----------------------------------------------------------------------------
(* C6 *)

\* data holds every row of rows exactly once
IsPermutation(data, rows) ==
    /\ Len(data) = Len(rows)
    /\ \A i \in 1..Len(rows) : Cardinality({j \in 1..Len(data) : data[j] = rows[i]}) = 1

NewestFirst(data) ==
    \A i \in 1..(Len(data) - 1) : data[i].created_at >= data[i + 1].created_at

TiesInStorageOrder(data) ==
    \A i \in 1..(Len(data) - 1) :
        data[i].created_at = data[i + 1].created_at => data[i].id < data[i + 1].id

\* the step is a GET /api/declarations answered with rows
GetAnswered == getRes' # getRes /\ getRes'.status = 200

\* C6 as amended: a successful GET returns every row of the store, count being
\* their number, with created_at never increasing from one row to the next; the
\* order of rows with the same created_at is the store's choice.
C6_ReturnsAllRowsNewestFirst ==
    [][GetAnswered => /\ getRes'.success
                      /\ getRes'.count = Len(store)
                      /\ IsPermutation(getRes'.data, store)
                      /\ NewestFirst(getRes'.data)]_vars

\* C6 as claimed: ... and rows of equal created_at come in storage order.
C6_TiesInStorageOrder ==
    [][GetAnswered => /\ getRes'.count = Len(store)
                      /\ IsPermutation(getRes'.data, store)
                      /\ NewestFirst(getRes'.data)
                      /\ TiesInStorageOrder(getRes'.data)]_vars

\* a GET answered with three rows, two of the same second and one older, which
\* the store holds in another order
C6_Witness ==
    /\ getRes.status = 200
    /\ getRes.count = 3
    /\ getRes.data[1].created_at = getRes.data[2].created_at
    /\ getRes.data[2].created_at > getRes.data[3].created_at
    /\ getRes.data # store
    /\ declarations # <<>>

-----------------------------------------------------------------------------
(* C7 *)

\* the index of the group of the view that holds row d
GroupsOf(groups, d) == {g \in 1..Len(groups) : \E i \in 1..Len(groups[g]) : groups[g][i] = d}

SameTriple(d, e) ==
    /\ d.user_name = e.user_name
    /\ d.assignment_title = e.assignment_title
    /\ d.created_at = e.created_at

\* the position in the fetched list of the first row of a group
FirstSeen(list, group) == CHOOSE i \in 1..Len(list) : list[i] = group[1]

\* C7: the grouping of the fetched rows puts every row in exactly one group, two
\* rows in the same group exactly when they agree on user_name, assignment_title
\* and created_at, the groups in the order their first row is fetched, and shows
\* one tool badge per row.
C7_GroupsByTriple ==
    LET groups == GroupedDeclarations(declarations)
    IN  /\ \A i \in 1..Len(declarations) :
             Cardinality(GroupsOf(groups, declarations[i])) = 1
        /\ \A i, j \in 1..Len(declarations) :
             (GroupsOf(groups, declarations[i]) = GroupsOf(groups, declarations[j]))
                <=> SameTriple(declarations[i], declarations[j])
        /\ \A g, h \in 1..Len(groups) :
             g < h => FirstSeen(declarations, groups[g]) < FirstSeen(declarations, groups[h])
        /\ \A g \in 1..Len(groups) : Len(Badges(groups[g])) = Len(groups[g])

-----------------------------------------------------------------------------
(* C8 *)

\* C8: the rows one submission created carry one common created_at, whenever
\* the store runs its inserts.
C8_CommonCreatedAt ==
    \A r \in Posts :
        \A i, j \in FulfilledInserts(req[r]) :
            RowOf(req[r], i).created_at = RowOf(req[r], j).created_at

-----------------------------------------------------------------------------
(* C9 *)

\* C9: a failure response of POST or GET /api/declarations carries the error
\* detail only when the server runs in development mode.
C9_ErrorDetailOnlyInDevelopment ==
    /\ \A r \in Posts :
         (Responded(r) /\ ~req[r].res.success /\ "error" \in DOMAIN req[r].res)
            => nodeEnv = "development"
    /\ (getRes.status = 500 /\ "error" \in DOMAIN getRes) => nodeEnv = "development"

-----------------------------------------------------------------------------
(* C10 *)

\* an insert of a submission is fulfilled in the step
SomeInsertFulfilled ==
    \E r \in Posts : \E i \in 1..Len(req[r].insertPromises) :
        /\ req[r].insertPromises[i] = Pending
        /\ req'[r].insertPromises[i].st = "fulfilled"

\* C10: the store is append-only: every step keeps every row with all its
\* fields, a row is added only by an insert of the submission handler, and a
\* GET changes nothing in the store.
C10_AppendOnly ==
    [][/\ Len(store') >= Len(store)
       /\ SubSeq(store', 1, Len(store)) = store
       /\ store' # store => SomeInsertFulfilled /\ Len(store') = Len(store) + 1
       /\ getRes' # getRes => store' = store]_vars

\* a failed submission that left a row, read by a later GET
C10_Witness ==
    /\ \E r \in Posts : req[r].res.status = 500 /\ FulfilledInserts(req[r]) # {}
    /\ getRes.status = 200
    /\ getRes.count = Len(store)
    /\ Len(store) >= 1

-----------------------------------------------------------------------------
(* C11 *)

\* C11: every row of the store has a user_name and an assignment_title that
\* are non-empty after trimming white space: the server refuses names and
\* titles of white space alone.
C11_NamesNonBlankAfterTrim ==
    \A i \in 1..Len(store) :
        /\ Len(Trim(store[i].user_name)) > 0
        /\ Len(Trim(store[i].assignment_title)) > 0

-----------------------------------------------------------------------------
(* C12 *)

ImageExtensions == {".jpeg", ".jpg", ".png", ".gif", ".webp"}

ImageMimeTypes == {"image/jpeg", "image/jpg", "image/png", "image/gif", "image/webp"}

\* the upload middleware stored the file of request r and called the handler
FileAccepted(r) ==
    /\ req[r].pc # "new"
    /\ req[r].file.present
    /\ req[r].pc = "done" => req[r].res.message # "Internal server error"

\* C12: a file is accepted only if its extension is one of jpeg, jpg, png,
\* gif, webp, its MIME type is one of the image formats of these names and its
\* size is at most 5 MiB; an extension or MIME type that only contains one of
\* the names is refused.
C12_AcceptsOnlyListedImageTypes ==
    \A r \in Posts :
        FileAccepted(r)
        => /\ ToLowerCase(req[r].file.ext) \in ImageExtensions
           /\ req[r].file.mimetype \in ImageMimeTypes
           /\ req[r].file.size <= 5 * 1024 * 1024

-----------------------------------------------------------------------------
(* C13 *)

InsertsInFlight(q) == {i \in 1..Len(q.insertPromises) : q.insertPromises[i] = Pending}

\* C13: when the handler has sent its 201 or 500 response, no insert of the
\* submission is still in flight: every one of them has finished or failed, so
\* no row of the submission reaches the store after the response.
C13_RespondsAfterAllInserts ==
    \A r \in Posts :
        (Responded(r) /\ Len(req[r].insertPromises) > 0) => InsertsInFlight(req[r]) = {}

-----------------------------------------------------------------------------
(* C14 *)

RejectedInserts(q) == {i \in 1..Len(q.insertPromises) : q.insertPromises[i].st = "rejected"}

\* the step is the handler's answer to the failure of an insert
CatchStep(r) == req[r].pc = "await" /\ req'[r].pc = "done" /\ RejectedInserts(req[r]) # {}

\* C14: a submission one of whose k inserts failed is answered 500 with
\* success false, and nothing is rolled back: the answer leaves the store as it
\* is, the rows of the inserts that committed stay in the store, and they are
\* at most k - 1.
C14_FailureReportedNoRollback ==
    /\ [](\A r \in Posts :
            (Responded(r) /\ RejectedInserts(req[r]) # {})
            => /\ req[r].res.status = 500
               /\ req[r].res.success = FALSE
               /\ Cardinality(FulfilledInserts(req[r])) <= Len(req[r].toolsArray) - 1
               /\ \A i \in FulfilledInserts(req[r]) :
                    /\ req[r].insertPromises[i].insertId \in 1..Len(store)
                    /\ RowOf(req[r], i).user_name = req[r].body.userName
                    /\ RowOf(req[r], i).assignment_title = req[r].body.assignmentTitle
                    /\ RowOf(req[r], i).ai_tool = SqlText(req[r].toolsArray[i]))
    /\ [][\A r \in Posts : CatchStep(r) => store' = store]_vars

\* a submission of three tools answered 500, two of whose rows are in the
\* store
C14_Witness ==
    \E r \in Posts :
        /\ req[r].res.status = 500
        /\ Len(req[r].toolsArray) = 3
        /\ Cardinality(FulfilledInserts(req[r])) = 2
        /\ RejectedInserts(req[r]) # {}
        /\ Len(store) = 2

-----------------------------------------------------------------------------
(* C16 *)

UploadsPrefix == "/uploads/"

\* the file name a screenshot_path refers to
FileOf(path) == SubSeq(path, Len(UploadsPrefix) + 1, Len(path))

\* C16: every row with a screenshot_path refers to a file that is in the
\* uploads directory: the handler's cleanup after a failed submission deletes
\* no file that a committed row of the submission references.
C16_ScreenshotPathsResolve ==
    \A i \in 1..Len(store) :
        store[i].screenshot_path # Null => FileOf(store[i].screenshot_path) \in files

-----------------------------------------------------------------------------
(* C15 *)

NonBlank(s) == Len(Trim(s)) > 0

\* name, title, purpose and content are filled in and a tool is named
FormComplete(fd) ==
    /\ NonBlank(fd.userName)
    /\ NonBlank(fd.assignmentTitle)
    /\ NonBlank(fd.usagePurpose)
    /\ NonBlank(fd.aiContent)
    /\ Len(fd.aiTools) > 0 \/ NonBlank(fd.customTool)

\* the step sends the POST request
PostIssued == ~loading /\ loading'

\* the step is a submission that validation stops: it shows a message that
\* neither the file input nor the server gives
SubmitRefused ==
    /\ ~loading /\ ~loading'
    /\ formData' = formData
    /\ error' # error
    /\ error' \notin {"", "Please upload an image file", "File size must be less than 5MB"}

\* C15: the form view sends the POST request only when name, title, purpose
\* and content are non-empty after trimming and a tool is checked or a
\* non-blank custom tool entered; the aiTools it sends is the list of the
\* checked tools in the order of their selection followed by the trimmed custom
\* tool if there is one, never empty, duplicates kept; a form that is not
\* complete sends nothing and shows an error message.
C15_FormSendsOnlyCompleteForms ==
    /\ [](FormComplete(formData) <=> ValidateForm(formData) = "")
    /\ [](loading => FormComplete(formData))
    /\ [][/\ PostIssued =>
               /\ FormComplete(formData)
               /\ submitData'.body.userName = Trim(formData.userName)
               /\ submitData'.body.assignmentTitle = Trim(formData.assignmentTitle)
               /\ submitData'.body.usagePurpose = Trim(formData.usagePurpose)
               /\ submitData'.body.aiContent = Trim(formData.aiContent)
               /\ LET sent == JsonParse(submitData'.body.aiTools).value.v
                      custom == IF NonBlank(formData.customTool)
                                THEN <<Trim(formData.customTool)>> ELSE <<>>
                  IN  /\ Len(sent) > 0
                      /\ [i \in 1..Len(sent) |-> sent[i].v] = formData.aiTools \o custom
                      /\ \A i \in 1..Len(sent) : sent[i].t = "str"
          /\ ~FormComplete(formData) => submitData' = submitData /\ ~loading'
          /\ SubmitRefused =>
               ~FormComplete(formData) /\ error' = ValidateForm(formData)]_vars

\* the request sent for a form with Claude checked, then ChatGPT, and the
\* custom tool " ChatGPT ": the list keeps both ChatGPT
C15_Witness ==
    /\ loading
    /\ formData.aiTools = <<"Claude", "ChatGPT">>
    /\ formData.customTool = " ChatGPT "
    /\ submitData.body.aiTools = ArrayText(<<Claude, ChatGPT, ChatGPT>>)
    /\ submitData.body.userName = "a"

====
